---- MODULE Spec2Model ----
(***************************************************************************)
(* Log Monitoring Service (src/app.py): the two tail readers               *)
(* read_last_n_lines_efficient and read_last_n_lines_streaming, and the    *)
(* HTTP handlers get_logs, stream_logs and list_logs that call them.       *)
(*                                                                         *)
(* A file is a sequence of one-character strings.  One behaviour is one    *)
(* call: a request to /logs, /logs/stream or /logs/list, or a direct call  *)
(* of one of the two readers on a path.                                    *)
(*                                                                         *)
(* Scaling.  The source fixes CHUNK_SIZE = 8192, the small-file cutoff     *)
(* CHUNK_SIZE * 10 and MAX_FILE_SIZE = 4 GiB.  The model keeps the three   *)
(* comparisons as the code writes them and scales the numbers: CHUNK_SIZE  *)
(* ranges over 1..MaxChunk, the cutoff is CHUNK_SIZE * SmallFileChunks and *)
(* MAX_FILE_SIZE is MaxLen, so that files of a few bytes take the fast     *)
(* path, the chunked scan and the size-limit rejection.                    *)
(***************************************************************************)
EXTENDS Integers, Sequences, FiniteSets, TLC

\* ------------------------------------------------------------------ bounds
MaxLen == 4
MaxCalls == 3
MaxN == 2
MaxChunk == 2
SmallFileChunks == 2
MAX_ENTRIES == 10000

MAX_FILE_SIZE == MaxLen

\* ------------------------------------------------------------- characters
NL == "\n"
Bytes == {NL, " ", "a", "A"}
Whitespace == {NL, " "}

\* Optional[str]: <<>> is None, <<k>> is the string k.
None == <<>>
Some(k) == <<k>>
Keywords == {None, Some(<<>>), Some(<<" ">>), Some(<<"a">>), Some(<<"A">>), Some(<<"a", "A">>)}

RECURSIVE SeqsUpTo(_, _)
SeqsUpTo(S, k) ==
    IF k = 0 THEN {<<>>}
    ELSE LET shorter == SeqsUpTo(S, k - 1)
         IN  shorter \cup {Append(s, c) : s \in {t \in shorter : Len(t) = k - 1}, c \in S}

\* Every file of at most MAX_FILE_SIZE bytes, and files one byte over it.
Files ==
    SeqsUpTo(Bytes, MaxLen) \cup {[i \in 1..(MaxLen + 1) |-> b] : b \in Bytes}

\* ------------------------------------------------- str and bytes methods
Reverse(s) == [i \in 1..Len(s) |-> s[Len(s) + 1 - i]]

\* str.lower()
LowerChar(c) == IF c = "A" THEN "a" ELSE c
Lower(s) == [i \in 1..Len(s) |-> LowerChar(s[i])]

\* needle in hay
Contains(hay, needle) ==
    \E i \in 0..(Len(hay) - Len(needle)) : SubSeq(hay, i + 1, i + Len(needle)) = needle

RECURSIVE LStrip(_)
LStrip(s) ==
    IF s # <<>> /\ Head(s) \in Whitespace THEN LStrip(Tail(s)) ELSE s

\* str.strip()
Strip(s) == Reverse(LStrip(Reverse(LStrip(s))))

\* bytes.decode('utf-8', errors='ignore'): bytes that are no valid text are dropped.
Decode(b) == SelectSeq(b, LAMBDA c : c \in Bytes)

\* bytes.rfind(b'\n'), 1-based; 0 when there is none (Python's -1).
RFind(b) ==
    IF \E i \in 1..Len(b) : b[i] = NL
    THEN CHOOSE i \in 1..Len(b) : b[i] = NL /\ \A j \in (i + 1)..Len(b) : b[j] # NL
    ELSE 0

\* 1-based index of the first newline, 0 when there is none.
Find(b) ==
    IF \E i \in 1..Len(b) : b[i] = NL
    THEN CHOOSE i \in 1..Len(b) : b[i] = NL /\ \A j \in 1..(i - 1) : b[j] # NL
    ELSE 0

\* bytes.split(b'\n'): the fragments between newlines, always at least one.
RECURSIVE Split(_)
Split(b) ==
    LET i == Find(b)
    IN  IF i = 0 THEN <<b>>
        ELSE <<SubSeq(b, 1, i - 1)>> \o Split(SubSeq(b, i + 1, Len(b)))

\* f.readlines() of a text file: the lines with their terminators kept.
RECURSIVE ReadLines(_)
ReadLines(b) ==
    LET i == Find(b)
    IN  IF b = <<>> THEN <<>>
        ELSE IF i = 0 THEN <<b>>
        ELSE <<SubSeq(b, 1, i)>> \o ReadLines(SubSeq(b, i + 1, Len(b)))

\* s[-n:] for n >= 1
LastN(s, n) == IF Len(s) <= n THEN s ELSE SubSeq(s, Len(s) - n + 1, Len(s))

\* s[:n]
FirstN(s, n) == IF Len(s) <= n THEN s ELSE SubSeq(s, 1, n)

Min(a, b) == IF a < b THEN a ELSE b

\* keyword is None or keyword.lower() in text.lower()
Matches(keyword, text) ==
    keyword = None \/ Contains(Lower(text), Lower(keyword[1]))

\* `if keyword:` is false for None and for the empty string.
Truthy(keyword) == keyword # None /\ keyword[1] # <<>>

\* ------------------------------------------------------------- filesystem
\* Names are sequences of characters, relative to BASE_LOG_DIR.
LogName == <<"l">>
DirName == <<"d">>
NestedName == <<"d", "/", "l">>
MissingName == <<"m">>
UpName == <<".", ".", "/", "l">>
RootName == <<"/", "l">>
DotsName == <<"l", ".", ".">>
Filenames == {LogName, DirName, NestedName, MissingName, UpName, RootName, DotsName}
Directories == {None, Some(<<>>), Some(DirName), Some(MissingName), Some(<<".", ".">>), Some(<<"/">>)}

\* The files that are not the log under test have a fixed content.
OtherContent == <<"a", NL>>

\* st_size of a directory depends on the filesystem.
DirSizes == {0, MaxLen}

Endpoints == {"logs", "stream", "list", "tail", "tail_stream"}

VARIABLES
    endpoint,    \* the operation called
    filename,    \* its filename (filepath of a direct call)
    directory,   \* the directory parameter of /logs/list
    entries,     \* its entries parameter (n of a direct call)
    keyword,     \* its keyword parameter
    CHUNK_SIZE,  \* bytes per backward read
    content,     \* the bytes of BASE_LOG_DIR / LogName
    dir_size,    \* st_size of the directories
    pc,          \* position of the call
    file_size,   \* filepath.stat().st_size as the reader observed it
    position,    \* the cursor
    buffer,      \* the carry buffer: bytes in tail, a list of fragments in tail_stream
    lines,       \* tail's list of accepted lines
    count,       \* lines_found, lines_yielded
    yielded,     \* the values tail_stream has handed to its consumer
    retval,      \* the list tail returned
    outcome,     \* "running", "returned" or the exception raised
    handle,      \* "none", "open", "closed"
    reads,       \* the byte ranges read, in order: <<from, to>>, to exclusive
    offsets,     \* the file offset of the first byte of each emitted line, in order
    fragments,   \* the raw fragments handed to decode(), in order: <<offset, bytes>>
    closing,     \* the consumer has closed the generator and it has not ended
    servers,     \* primary_server.py: server_registry.servers
    calls,       \* primary_server.py: the register and unregister requests, each with its position
    fs_ops,      \* the number of filesystem accesses made (exists, is_file, stat, open, read, rglob)
    status,      \* status code of the HTTP response, 0 while there is none
    listing      \* the filenames /logs/list answered

inputs == <<endpoint, filename, directory, entries, keyword, CHUNK_SIZE, content, dir_size>>
scan == <<file_size, position, buffer, lines, count, yielded, retval, handle, reads, offsets,
          fragments, closing>>
registry == <<servers, calls>>
app == <<inputs, scan, pc, outcome, fs_ops, status, listing>>
vars == <<app, registry>>

\* Path.exists(), Path.is_file(), Path.stat().st_size and the bytes of a path.
PathKind(name) ==
    IF name \in {LogName, NestedName, UpName, RootName} THEN "file"
    ELSE IF name \in {<<>>, DirName} THEN "dir"
    ELSE "missing"

PathContent(name) == IF name = LogName THEN content ELSE OtherContent

PathSize(name) == IF PathKind(name) = "dir" THEN dir_size ELSE Len(PathContent(name))

\* search_dir.rglob("*") filtered by is_file(), relative to BASE_LOG_DIR
FilesUnder(name) ==
    IF name = <<>> THEN {LogName, NestedName}
    ELSE IF name = DirName THEN {NestedName}
    ELSE {}

\* primary_server.py 32-36, 81-82, 104-105: the requests to the registry.
Calls == 1..MaxCalls
ServerNames == {"s1", "s2"}
ServerUrls == {"u1", "u2"}
SecondaryServer == [name : ServerNames, url : ServerUrls]
NoCall == [op |-> "none", server |-> [name |-> "s1", url |-> "u1"], pc |-> "done", status |-> 0]
RegisterCalls == [op : {"register"}, server : SecondaryServer, pc : {"start"}, status : {0}]
UnregisterCalls ==
    [op : {"unregister"}, server : {[name |-> nm, url |-> "u1"] : nm \in ServerNames},
     pc : {"start"}, status : {0}]

Init ==
    /\ endpoint \in Endpoints
    /\ filename \in (IF endpoint = "list" THEN {<<>>} ELSE Filenames)
    /\ directory \in (IF endpoint = "list" THEN Directories ELSE {None})
    /\ entries \in (IF endpoint = "list" THEN {1}
                    ELSE IF endpoint \in {"tail", "tail_stream"} THEN 1..MaxN
                    ELSE 0..MaxN)
    /\ keyword \in (IF endpoint = "list" THEN {None} ELSE Keywords)
    /\ CHUNK_SIZE \in (IF endpoint = "list" THEN {1} ELSE 1..MaxChunk)
    /\ content \in (IF filename = LogName THEN Files ELSE {OtherContent})
    /\ dir_size \in (IF filename = DirName THEN DirSizes ELSE {MaxLen})
    /\ pc = (IF endpoint = "tail" THEN "tail_enter"
             ELSE IF endpoint = "tail_stream" THEN "stream_enter"
             ELSE "request")
    /\ file_size = 0
    /\ position = 0
    /\ buffer = <<>>
    /\ lines = <<>>
    /\ count = 0
    /\ yielded = <<>>
    /\ retval = <<>>
    /\ outcome = "running"
    /\ handle = "none"
    /\ reads = <<>>
    /\ offsets = <<>>
    /\ fragments = <<>>
    /\ closing = FALSE
    /\ servers = <<>>
    /\ calls = [c \in Calls |-> NoCall]
    /\ fs_ops = 0
    /\ status = 0
    /\ listing = {}

\* Where a reader goes when it ends: back into its handler, or nowhere.
AfterTail == IF endpoint = "logs" THEN "logs_return" ELSE "done"

\* --------------------------------------------- read_last_n_lines_efficient
\* Start offsets (0-based) of the lines readlines() returns.
RECURSIVE LineStarts(_, _)
LineStarts(ls, at) ==
    IF ls = <<>> THEN <<>> ELSE <<at>> \o LineStarts(Tail(ls), at + Len(Head(ls)))

\* app.py 76-80: the small-file path.
FastPath(bytes, n, kw) ==
    LET all_lines == ReadLines(Decode(bytes))
        starts == LineStarts(all_lines, 0)
        keep == {i \in 1..Len(all_lines) : ~Truthy(kw) \/ Contains(Lower(all_lines[i]), Lower(kw[1]))}
        sel(s) == LET F[i \in 0..Len(s)] ==
                          IF i = 0 THEN <<>>
                          ELSE IF i \in keep THEN Append(F[i - 1], s[i]) ELSE F[i - 1]
                  IN  F[Len(s)]
    IN  [lines |-> Reverse(LastN(sel(all_lines), n)),
         offsets |-> Reverse(LastN(sel(starts), n))]

\* decoded_line of app.py 111 and 124
Normalize(line) == Strip(Decode(line))

\* app.py 103-119: the lines taken off the end of the buffer after one read.
\* st is [buffer, lines, count, offsets, frags, returned].
RECURSIVE ExtractLines(_, _, _, _)
ExtractLines(st, pos, n, kw) ==
    LET line_end == RFind(st.buffer)
        line == SubSeq(st.buffer, line_end + 1, Len(st.buffer))
        rest == SubSeq(st.buffer, 1, line_end - 1)
        decoded_line == Normalize(line)
        accept == line # <<>> /\ decoded_line # <<>> /\ Matches(kw, decoded_line)
        next == [buffer |-> rest,
                 lines |-> IF accept THEN Append(st.lines, decoded_line) ELSE st.lines,
                 count |-> IF accept THEN st.count + 1 ELSE st.count,
                 offsets |-> IF accept THEN Append(st.offsets, pos + line_end) ELSE st.offsets,
                 frags |-> IF line # <<>> THEN Append(st.frags, <<pos + line_end, line>>)
                           ELSE st.frags,
                 returned |-> accept /\ st.count + 1 >= n]
    IN  IF line_end = 0 THEN st
        ELSE IF next.returned THEN next
        ELSE ExtractLines(next, pos, n, kw)

\* The empty-file test left out.
IsEmptyFileNever(size) == FALSE

\* app.py 66 and 142: the empty-file test.
IsEmptyFile(size) == size = 0

\* The size-limit test passing a file one byte over the limit.
TooLargeOffByOne(size) == size > MAX_FILE_SIZE + 1

\* app.py 69 and 145: the size-limit test.
TooLarge(size) == size > MAX_FILE_SIZE

\* app.py 75: the small-file test.
IsSmallFile(size, cs) == size < cs * SmallFileChunks

\* The same reading all that is left before the cursor at once.
ReadSizeWholeRest(cs, pos) == pos

\* app.py 92 and 158: the number of bytes of the next read.
ReadSize(cs, pos) == Min(cs, pos)

\* app.py 90: the outer loop's condition.
TailLoopCond(st, n) == st.position > 0 /\ st.count < n * 2

\* app.py 86-88: the state the scan starts in.
ScanStart(size) ==
    [position |-> size, buffer |-> <<>>, lines |-> <<>>, count |-> 0,
     offsets |-> <<>>, frags |-> <<>>, read |-> <<size, size>>, returned |-> FALSE]

\* The same without the bytes carried over from the reads before.
ScanStepDropCarry(st, bytes, n, kw, cs) ==
    LET chunk_size == ReadSize(cs, st.position)
        pos == st.position - chunk_size
        chunk == SubSeq(bytes, pos + 1, pos + chunk_size)
        ex == ExtractLines([buffer |-> chunk, lines |-> st.lines,
                            count |-> st.count, offsets |-> st.offsets,
                            frags |-> st.frags, returned |-> FALSE], pos, n, kw)
    IN  [position |-> pos, buffer |-> ex.buffer, lines |-> ex.lines, count |-> ex.count,
         offsets |-> ex.offsets, frags |-> ex.frags, read |-> <<pos, pos + chunk_size>>,
         returned |-> ex.returned]

\* app.py 91-119: one pass of the outer loop over the bytes of the file.
ScanStep(st, bytes, n, kw, cs) ==
    LET chunk_size == ReadSize(cs, st.position)
        pos == st.position - chunk_size
        chunk == SubSeq(bytes, pos + 1, pos + chunk_size)
        ex == ExtractLines([buffer |-> chunk \o st.buffer, lines |-> st.lines,
                            count |-> st.count, offsets |-> st.offsets,
                            frags |-> st.frags, returned |-> FALSE], pos, n, kw)
    IN  [position |-> pos, buffer |-> ex.buffer, lines |-> ex.lines, count |-> ex.count,
         offsets |-> ex.offsets, frags |-> ex.frags, read |-> <<pos, pos + chunk_size>>,
         returned |-> ex.returned]

\* app.py 121-131: the remaining buffer, and the slice returned.
Drain(st, n, kw) ==
    LET decoded_line == Normalize(st.buffer)
        handled == st.buffer # <<>> /\ st.count < n
        accept == handled /\ decoded_line # <<>> /\ Matches(kw, decoded_line)
    IN  [st EXCEPT !.lines = IF accept THEN Append(@, decoded_line) ELSE @,
                   !.offsets = IF accept THEN Append(@, st.position) ELSE @,
                   !.frags = IF handled THEN Append(@, <<st.position, st.buffer>>) ELSE @]

\* app.py 90-131: the scan run to its end.
RECURSIVE ScanAll(_, _, _, _, _)
ScanAll(st, bytes, n, kw, cs) ==
    IF st.returned THEN st.lines
    ELSE IF TailLoopCond(st, n) THEN ScanAll(ScanStep(st, bytes, n, kw, cs), bytes, n, kw, cs)
    ELSE FirstN(Drain(st, n, kw).lines, n)

\* app.py 48-131 on a regular file of at most MAX_FILE_SIZE bytes: the list returned.
read_last_n_lines_efficient(bytes, n, kw, cs) ==
    IF Len(bytes) = 0 THEN <<>>
    ELSE IF IsSmallFile(Len(bytes), cs) THEN FastPath(bytes, n, kw).lines
    ELSE ScanAll(ScanStart(Len(bytes)), bytes, n, kw, cs)

\* app.py 61-88: the checks, the small-file path, the opening of the scan.
tail_enter ==
    /\ pc = "tail_enter"
    /\ IF PathKind(filename) = "missing"
       THEN /\ outcome' = "FileNotFoundError"
            /\ fs_ops' = fs_ops + 1
            /\ UNCHANGED scan
       ELSE LET size == PathSize(filename) IN
            IF IsEmptyFile(size)
            THEN /\ outcome' = "returned"
                 /\ fs_ops' = fs_ops + 2
                 /\ file_size' = size
                 /\ UNCHANGED <<position, buffer, lines, count, yielded, retval, handle, reads, offsets,
                             fragments, closing>>
            ELSE IF TooLarge(size)
            THEN /\ outcome' = "ValueError"
                 /\ fs_ops' = fs_ops + 2
                 /\ file_size' = size
                 /\ UNCHANGED <<position, buffer, lines, count, yielded, retval, handle, reads, offsets,
                             fragments, closing>>
            ELSE IF PathKind(filename) = "dir"
            THEN /\ outcome' = "IsADirectoryError"
                 /\ fs_ops' = fs_ops + 3
                 /\ file_size' = size
                 /\ UNCHANGED <<position, buffer, lines, count, yielded, retval, handle, reads, offsets,
                             fragments, closing>>
            ELSE IF IsSmallFile(size, CHUNK_SIZE)
            THEN LET r == FastPath(PathContent(filename), entries, keyword) IN
                 /\ outcome' = "returned"
                 /\ fs_ops' = fs_ops + 4
                 /\ file_size' = size
                 /\ retval' = r.lines
                 /\ offsets' = r.offsets
                 /\ handle' = "closed"
                 /\ reads' = <<<<0, size>>>>
                 /\ UNCHANGED <<position, buffer, lines, count, yielded, fragments, closing>>
            ELSE LET st == ScanStart(size) IN
                 /\ outcome' = "running"
                 /\ fs_ops' = fs_ops + 3
                 /\ file_size' = size
                 /\ position' = st.position
                 /\ buffer' = st.buffer
                 /\ count' = st.count
                 /\ handle' = "open"
                 /\ UNCHANGED <<lines, yielded, retval, reads, offsets, fragments, closing>>
    /\ pc' = IF outcome' = "running" THEN "tail_scan" ELSE AfterTail
    /\ UNCHANGED <<registry, inputs, status, listing>>

\* The scan's variables as the record the step operators work on.
ScanState ==
    [position |-> position, buffer |-> buffer, lines |-> lines, count |-> count,
     offsets |-> offsets, frags |-> fragments, read |-> <<position, position>>,
     returned |-> FALSE]

\* app.py 90-119: one pass of the outer loop.
tail_read_chunk ==
    /\ pc = "tail_scan"
    /\ TailLoopCond(ScanState, entries)
    /\ LET st == ScanStep(ScanState, PathContent(filename), entries, keyword, CHUNK_SIZE)
       IN  /\ position' = st.position
           /\ reads' = Append(reads, st.read)
           /\ buffer' = st.buffer
           /\ lines' = st.lines
           /\ count' = st.count
           /\ offsets' = st.offsets
           /\ fragments' = st.frags
           /\ IF st.returned
              THEN /\ retval' = st.lines
                   /\ outcome' = "returned"
                   /\ handle' = "closed"
                   /\ pc' = AfterTail
              ELSE UNCHANGED <<retval, outcome, handle, pc>>
    /\ fs_ops' = fs_ops + 1
    /\ UNCHANGED <<registry, inputs, file_size, yielded, closing, status, listing>>

\* app.py 121-131: the remaining buffer, once the loop has ended.
tail_drain ==
    /\ pc = "tail_scan"
    /\ ~TailLoopCond(ScanState, entries)
    /\ LET st == Drain(ScanState, entries, keyword)
       IN  /\ lines' = st.lines
           /\ offsets' = st.offsets
           /\ fragments' = st.frags
           /\ retval' = FirstN(st.lines, entries)
    /\ outcome' = "returned"
    /\ handle' = "closed"
    /\ pc' = AfterTail
    /\ UNCHANGED <<registry, inputs, file_size, position, buffer, count, yielded, reads, closing,
                   fs_ops, status, listing>>

\* app.py 96-97, 83-84: a read that fails; the with blocks close the map and the file.
tail_read_fails ==
    /\ pc = "tail_scan"
    /\ TailLoopCond(ScanState, entries)
    /\ outcome' = "OSError"
    /\ handle' = "closed"
    /\ pc' = AfterTail
    /\ fs_ops' = fs_ops + 1
    /\ UNCHANGED <<registry, inputs, file_size, position, buffer, lines, count, yielded, retval, reads,
                   offsets, fragments, closing, status, listing>>

\* --------------------------------------------- read_last_n_lines_streaming
\* app.py 171: the inner loop's condition; app.py 156: the outer loop's.
InnerCond == Len(buffer) > 1 /\ count < entries
OuterCond == position > 0 /\ count < entries

\* File offset of the first byte of buffer[0]: the fragments behind it, and
\* the newline after each, lie between position and it.
RECURSIVE FragmentsLen(_)
FragmentsLen(frags) ==
    IF frags = <<>> THEN 0 ELSE Len(Head(frags)) + 1 + FragmentsLen(Tail(frags))

HeadOffset == position + FragmentsLen(Tail(buffer))

\* app.py 138-154: the checks and the opening of the file; the body runs when
\* the consumer first asks for a value.
stream_enter ==
    /\ pc = "stream_enter"
    /\ IF PathKind(filename) = "missing"
       THEN /\ outcome' = "FileNotFoundError"
            /\ fs_ops' = fs_ops + 1
            /\ UNCHANGED scan
       ELSE LET size == PathSize(filename) IN
            IF IsEmptyFile(size)
            THEN /\ outcome' = "returned"
                 /\ fs_ops' = fs_ops + 2
                 /\ file_size' = size
                 /\ UNCHANGED <<position, buffer, lines, count, yielded, retval, handle, reads, offsets,
                             fragments, closing>>
            ELSE IF TooLarge(size)
            THEN /\ outcome' = "ValueError"
                 /\ fs_ops' = fs_ops + 2
                 /\ file_size' = size
                 /\ UNCHANGED <<position, buffer, lines, count, yielded, retval, handle, reads, offsets,
                             fragments, closing>>
            ELSE IF PathKind(filename) = "dir"
            THEN /\ outcome' = "IsADirectoryError"
                 /\ fs_ops' = fs_ops + 3
                 /\ file_size' = size
                 /\ UNCHANGED <<position, buffer, lines, count, yielded, retval, handle, reads, offsets,
                             fragments, closing>>
            ELSE /\ outcome' = "running"
                 /\ fs_ops' = fs_ops + 3
                 /\ file_size' = size
                 /\ position' = size
                 /\ buffer' = <<>>
                 /\ count' = 0
                 /\ handle' = "open"
                 /\ UNCHANGED <<lines, yielded, retval, reads, offsets, fragments, closing>>
    /\ pc' = IF outcome' = "running" THEN "stream_scan" ELSE "done"
    /\ UNCHANGED <<registry, inputs, status, listing>>

\* The same with the fragments of the chunk left in file order.
StreamBufferUnreversed(chunk, buf) ==
    LET split == Split(chunk)
        joined == IF buf # <<>> THEN [split EXCEPT ![Len(split)] = @ \o Head(buf)] ELSE split
        rest == IF buf # <<>> THEN Tail(buf) ELSE buf
    IN  joined \o rest

\* app.py 164-169: the chunk split at the newlines, its last fragment completed
\* by the fragment carried over, the fragments put newest first before the rest.
StreamBuffer(chunk, buf) ==
    LET split == Split(chunk)
        joined == IF buf # <<>> THEN [split EXCEPT ![Len(split)] = @ \o Head(buf)] ELSE split
        rest == IF buf # <<>> THEN Tail(buf) ELSE buf
    IN  Reverse(joined) \o rest

\* app.py 156-169: one read, its fragments put in front of the buffer.
stream_read_chunk ==
    /\ pc = "stream_scan"
    /\ ~InnerCond /\ OuterCond
    /\ LET chunk_size == ReadSize(CHUNK_SIZE, position)
           pos == position - chunk_size
           chunk == SubSeq(PathContent(filename), pos + 1, pos + chunk_size)
       IN  /\ position' = pos
           /\ reads' = Append(reads, <<pos, pos + chunk_size>>)
           /\ buffer' = StreamBuffer(chunk, buffer)
    /\ fs_ops' = fs_ops + 1
    /\ UNCHANGED <<registry, inputs, file_size, lines, count, yielded, retval, handle, offsets,
                   fragments, closing, pc, outcome, status, listing>>

\* app.py 160-161, 150: a read that fails; the with block closes the file.
stream_read_fails ==
    /\ pc = "stream_scan"
    /\ ~InnerCond /\ OuterCond
    /\ outcome' = "OSError"
    /\ handle' = "closed"
    /\ pc' = "done"
    /\ fs_ops' = fs_ops + 1
    /\ UNCHANGED <<registry, inputs, file_size, position, buffer, lines, count, yielded, retval, reads,
                   offsets, fragments, closing, status, listing>>

\* app.py 171-177: one pass of the inner loop up to its yield.  An accepted
\* line is handed to the consumer and the generator is suspended; when the
\* consumer has closed the generator, the yield makes close() raise
\* RuntimeError and the generator stays suspended with its file open.
stream_pop ==
    /\ pc = "stream_scan"
    /\ InnerCond
    /\ LET line == Head(buffer)
           decoded == Normalize(line)
           accept == line # <<>> /\ decoded # <<>> /\ Matches(keyword, decoded)
       IN  /\ buffer' = Tail(buffer)
           /\ fragments' = IF line # <<>> THEN Append(fragments, <<HeadOffset, line>>)
                           ELSE fragments
           /\ IF accept /\ closing
              THEN /\ outcome' = "RuntimeError"
                   /\ pc' = "done"
                   /\ UNCHANGED <<yielded, offsets>>
              ELSE /\ yielded' = IF accept THEN Append(yielded, decoded) ELSE yielded
                   /\ offsets' = IF accept THEN Append(offsets, HeadOffset) ELSE offsets
                   /\ pc' = IF accept THEN "stream_yield" ELSE pc
                   /\ UNCHANGED outcome
    /\ UNCHANGED <<registry, inputs, file_size, position, lines, count, retval, handle, reads,
                   closing, fs_ops, status, listing>>

\* app.py 178: the consumer asks for the next value; the generator resumes
\* after its yield.
stream_next ==
    /\ pc = "stream_yield"
    /\ count' = count + 1
    /\ pc' = "stream_scan"
    /\ UNCHANGED <<registry, inputs, file_size, position, buffer, lines, yielded, retval, handle, reads,
                   offsets, fragments, closing, outcome, fs_ops, status, listing>>

\* app.py 174-180: the consumer closes the generator at a yield; GeneratorExit
\* is raised at the yield, inside the try, and the bare except swallows it:
\* lines_yielded is not incremented and the loops go on.
stream_close ==
    /\ pc = "stream_yield"
    /\ closing' = TRUE
    /\ pc' = "stream_scan"
    /\ UNCHANGED <<registry, inputs, file_size, position, buffer, lines, count, yielded, retval, handle,
                   reads, offsets, fragments, outcome, fs_ops, status, listing>>

\* app.py 156, 150: both loops have ended; the with block closes the file.
stream_exit ==
    /\ pc = "stream_scan"
    /\ ~InnerCond /\ ~OuterCond
    /\ outcome' = IF closing THEN "closed" ELSE "returned"
    /\ handle' = "closed"
    /\ pc' = "done"
    /\ UNCHANGED <<registry, inputs, file_size, position, buffer, lines, count, yielded, retval,
                   reads, offsets, fragments, closing, fs_ops, status, listing>>

\* ---------------------------------------------------------------- handlers
\* The sanitizing test without its ".." part.
InvalidNameSlashOnly(name) == name # <<>> /\ name[1] = "/"

\* ".." in filename or filename.startswith("/")
InvalidName(name) ==
    \/ \E i \in 1..(Len(name) - 1) : name[i] = "." /\ name[i + 1] = "."
    \/ (name # <<>> /\ name[1] = "/")

\* Query(100, ge=1, le=10000): the framework answers 422 before the handler runs.
ValidEntries(n) == n >= 1 /\ n <= MAX_ENTRIES

Respond(code) ==
    /\ status' = code
    /\ pc' = "done"

\* app.py 198-230: /logs up to its call of read_last_n_lines_efficient.
get_logs ==
    /\ pc = "request" /\ endpoint = "logs"
    /\ IF ~ValidEntries(entries) THEN Respond(422) /\ UNCHANGED fs_ops
       ELSE IF InvalidName(filename) THEN Respond(400) /\ UNCHANGED fs_ops
       ELSE IF PathKind(filename) = "missing" THEN Respond(404) /\ fs_ops' = fs_ops + 1
       ELSE IF PathKind(filename) # "file" THEN Respond(400) /\ fs_ops' = fs_ops + 2
       ELSE /\ pc' = "tail_enter"
            /\ fs_ops' = fs_ops + 2
            /\ UNCHANGED status
    /\ UNCHANGED <<registry, inputs, scan, outcome, listing>>

\* app.py 232-243: the response built from what the reader returned or raised.
get_logs_return ==
    /\ pc = "logs_return"
    /\ status' = (IF outcome = "returned" THEN 200
                  ELSE IF outcome = "ValueError" THEN 413
                  ELSE 500)
    /\ pc' = "done"
    /\ UNCHANGED <<registry, inputs, scan, outcome, fs_ops, listing>>

\* app.py 285-322: /logs/stream; the response starts with status 200 and the
\* generator runs while the body is sent.
stream_logs ==
    /\ pc = "request" /\ endpoint = "stream"
    /\ IF ~ValidEntries(entries) THEN Respond(422) /\ UNCHANGED fs_ops
       ELSE IF InvalidName(filename) THEN Respond(400) /\ UNCHANGED fs_ops
       ELSE IF PathKind(filename) = "missing" THEN Respond(404) /\ fs_ops' = fs_ops + 1
       ELSE /\ pc' = "stream_enter"
            /\ fs_ops' = fs_ops + 1
            /\ status' = 200
    /\ UNCHANGED <<registry, inputs, scan, outcome, listing>>

\* app.py 246-282: /logs/list.
list_logs ==
    /\ pc = "request" /\ endpoint = "list"
    /\ LET given == directory # None /\ directory[1] # <<>>
           search_dir == IF given THEN directory[1] ELSE <<>>
       IN  IF given /\ InvalidName(directory[1])
           THEN Respond(400) /\ UNCHANGED <<fs_ops, listing>>
           ELSE IF PathKind(search_dir) = "missing"
           THEN Respond(404) /\ fs_ops' = fs_ops + 1 /\ UNCHANGED listing
           ELSE /\ Respond(200)
                /\ fs_ops' = fs_ops + 2 + 2 * Cardinality(FilesUnder(search_dir))
                /\ listing' = FilesUnder(search_dir)
    /\ UNCHANGED <<registry, inputs, scan, outcome>>

Next ==
    \/ get_logs
    \/ get_logs_return
    \/ stream_logs
    \/ list_logs
    \/ tail_enter
    \/ tail_read_chunk
    \/ tail_drain
    \/ tail_read_fails
    \/ stream_enter
    \/ stream_read_chunk
    \/ stream_read_fails
    \/ stream_pop
    \/ stream_next
    \/ stream_close
    \/ stream_exit

Spec == Init /\ [][Next]_vars

\* ------------------------------------------------- primary_server registry
\* primary_server.py 39-41, 60-61: the registry starts empty.  The requests are
\* coroutines on one event loop: each runs without interruption from one
\* await to the next.  The log reader takes no part here.
InitRegistry ==
    /\ servers = <<>>
    /\ calls \in [Calls -> RegisterCalls \cup UnregisterCalls]
    /\ endpoint = "list" /\ filename = <<>> /\ directory = None /\ entries = 1
    /\ keyword = None /\ CHUNK_SIZE = 1 /\ content = OtherContent /\ dir_size = MaxLen
    /\ pc = "done" /\ outcome = "running" /\ status = 0 /\ listing = {}
    /\ file_size = 0 /\ position = 0 /\ buffer = <<>> /\ lines = <<>> /\ count = 0
    /\ yielded = <<>> /\ retval = <<>> /\ handle = "none" /\ reads = <<>>
    /\ offsets = <<>> /\ fragments = <<>> /\ closing = FALSE /\ fs_ops = 0

Registered(name) == \E i \in 1..Len(servers) : servers[i].name = name

Finish(c, code) == [calls EXCEPT ![c].pc = "done", ![c].status = code]

\* primary_server.py 84-90: the duplicate check, up to the await of the health
\* request.
register_server_check(c) ==
    /\ calls[c].op = "register" /\ calls[c].pc = "start"
    /\ calls' = IF Registered(calls[c].server.name) THEN Finish(c, 400)
                ELSE [calls EXCEPT ![c].pc = "health"]
    /\ UNCHANGED <<servers, app>>

\* primary_server.py 91-97: the health request answers with another status than
\* 200, fails or times out.
register_server_unhealthy(c) ==
    /\ calls[c].op = "register" /\ calls[c].pc = "health"
    /\ calls' = Finish(c, 400)
    /\ UNCHANGED <<servers, app>>

\* primary_server.py 90-91, 99-100: the health request answers 200; the server
\* is appended.
register_server_append(c) ==
    /\ calls[c].op = "register" /\ calls[c].pc = "health"
    /\ servers' = Append(servers, calls[c].server)
    /\ calls' = Finish(c, 200)
    /\ UNCHANGED app

\* primary_server.py 104-112: the first server of that name is removed.
unregister_server(c) ==
    /\ calls[c].op = "unregister" /\ calls[c].pc = "start"
    /\ IF Registered(calls[c].server.name)
       THEN LET i == CHOOSE k \in 1..Len(servers) :
                        /\ servers[k].name = calls[c].server.name
                        /\ \A j \in 1..(k - 1) : servers[j].name # calls[c].server.name
            IN  /\ servers' = SubSeq(servers, 1, i - 1) \o SubSeq(servers, i + 1, Len(servers))
                /\ calls' = Finish(c, 200)
       ELSE /\ calls' = Finish(c, 404)
            /\ UNCHANGED servers
    /\ UNCHANGED app

NextRegistry ==
    \/ \E c \in Calls : register_server_check(c)
    \/ \E c \in Calls : register_server_unhealthy(c)
    \/ \E c \in Calls : register_server_append(c)
    \/ \E c \in Calls : unregister_server(c)

SpecRegistry == InitRegistry /\ [][NextRegistry]_vars

\* ------------------------------------------------------------- properties
\* The lines of a file: the bytes between consecutive newlines, or between a
\* newline and the start or the end of the file.  Offsets are 0-based.
LineOffsets(c) == {0} \cup {i \in 1..Len(c) : c[i] = NL}

LineFrom(c, off) ==
    LET ends == {j \in (off + 1)..Len(c) : c[j] = NL}
        e == IF ends = {} THEN Len(c) + 1 ELSE CHOOSE j \in ends : \A k \in ends : j <= k
    IN  SubSeq(c, off + 1, e - 1)

RECURSIVE Ascending(_)
Ascending(S) ==
    IF S = {} THEN <<>>
    ELSE LET m == CHOOSE x \in S : \A y \in S : x <= y
         IN  <<m>> \o Ascending(S \ {m})

\* The non-empty trimmed lines of a file, oldest first.
TrimmedLines(c) ==
    LET offs == Ascending(LineOffsets(c))
        all == [i \in 1..Len(offs) |-> Strip(LineFrom(c, offs[i]))]
    IN  SelectSeq(all, LAMBDA t : t # <<>>)

\* Those of them that contain the keyword, whatever the case of the letters.
MatchingLines(c, kw) ==
    SelectSeq(TrimmedLines(c), LAMBDA t : kw = None \/ Contains(Lower(t), Lower(kw[1])))

\* The newest n of them, newest first.
ExpectedTail(c, n, kw) == Reverse(LastN(MatchingLines(c, kw), n))

MapStrip(ls) == [i \in 1..Len(ls) |-> Strip(ls[i])]

IsTail == endpoint \in {"tail", "logs"}
IsStream == endpoint \in {"tail_stream", "stream"}
RegularFile == PathKind(filename) = "file"
TheFile == PathContent(filename)
TailReturned == IsTail /\ RegularFile /\ outcome = "returned"
StreamEnded == IsStream /\ RegularFile /\ outcome = "returned"
TookFastPath == IsTail /\ RegularFile /\ file_size > 0 /\ ~TooLarge(file_size)
                /\ IsSmallFile(file_size, CHUNK_SIZE)
TookGeneralPath == IsTail /\ RegularFile /\ file_size > 0 /\ ~TooLarge(file_size)
                   /\ ~IsSmallFile(file_size, CHUNK_SIZE)

\* What the reader has emitted so far.
Emitted == IF IsStream THEN yielded ELSE IF outcome = "returned" THEN retval ELSE lines

\* C1: tail(file, n, None) returns exactly the reverse of the last min(n, total)
\* non-empty trimmed lines of the file, on the fast path and on the chunked scan.
C1_TailIsReverseOfLastLines ==
    (TailReturned /\ keyword = None) => retval = ExpectedTail(TheFile, entries, None)

\* The part of C1 that the chunked scan keeps.
C1_GeneralPathExact ==
    (TailReturned /\ TookGeneralPath) => retval = ExpectedTail(TheFile, entries, keyword)

\* C2: the sequence tail_stream yields, consumed to its end, equals the list
\* tail returns for the same file, n and keyword.
C2_StreamEqualsTail ==
    StreamEnded =>
        yielded = read_last_n_lines_efficient(TheFile, entries, keyword, CHUNK_SIZE)

\* What tail_stream does yield: the expected lines of the file without its first line.
StreamSkipsFirstLine ==
    StreamEnded =>
        LET first == LineFrom(TheFile, 0)
            rest == SubSeq(TheFile, Len(first) + 2, Len(TheFile))
        IN  yielded = (IF Len(first) = Len(TheFile) THEN <<>>
                       ELSE ExpectedTail(rest, entries, keyword))

\* C3: with a keyword, tail returns only lines that contain it (letters compared
\* without case), and the lines returned are the newest n matching lines of the
\* file, none missed.
C3_KeywordFilterExact ==
    (TailReturned /\ keyword # None) =>
        /\ \A i \in 1..Len(retval) : Contains(Lower(retval[i]), Lower(keyword[1]))
        /\ MapStrip(retval) = ExpectedTail(TheFile, entries, keyword)

\* The part of C3 that holds on both paths: a keyword that has a character and
\* no whitespace selects exactly the newest n matching lines.
C3_VisibleKeywordExact ==
    (TailReturned /\ Truthy(keyword) /\ \A i \in 1..Len(keyword[1]) : keyword[1][i] \notin Whitespace) =>
        /\ \A i \in 1..Len(retval) : Contains(Lower(retval[i]), Lower(keyword[1]))
        /\ MapStrip(retval) = ExpectedTail(TheFile, entries, keyword)

\* C4: the number of lines tail(file, n, None) returns is min(n, number of
\* lines of the file that are non-empty after trimming).
C4_CountIsMinOfNAndLines ==
    (TailReturned /\ keyword = None) =>
        Len(retval) = Min(entries, Len(TrimmedLines(TheFile)))

\* C5: tail and tail_stream produce at most n lines, and when fewer than n
\* lines of the file match they produce every matching line and end without error.
C5_AtMostNAndAllWhenFewer ==
    ((IsTail \/ IsStream) /\ RegularFile /\ ~TooLarge(Len(TheFile))
      /\ outcome \notin {"running", "OSError", "closed", "RuntimeError"}) =>
        /\ outcome = "returned"
        /\ Len(Emitted) <= entries
        /\ (Len(MatchingLines(TheFile, keyword)) < entries =>
              MapStrip(Emitted) = Reverse(MatchingLines(TheFile, keyword)))

\* The part of C5 that holds: never more than n lines.
C5_AtMostN == Len(Emitted) <= entries \/ entries = 0

\* Each emitted line is the line of the file that starts at the offset recorded for it.
EmittedAtOffsets ==
    /\ Len(offsets) = Len(Emitted)
    /\ \A i \in 1..Len(offsets) :
          /\ offsets[i] \in LineOffsets(TheFile)
          /\ Strip(Emitted[i]) = Strip(LineFrom(TheFile, offsets[i]))

\* C6: within one scan the lines are emitted in strictly decreasing order of the
\* file offset they start at: none twice, none out of order.
C6_StrictlyDecreasingOffsets ==
    ((IsTail \/ IsStream) /\ RegularFile) =>
        /\ EmittedAtOffsets
        /\ \A i, j \in 1..Len(offsets) : i < j => offsets[i] > offsets[j]

C6_Witness ==
    /\ IsStream /\ RegularFile
    /\ Len(offsets) >= 2
    /\ Len(reads) >= 3

\* C7: for a file that does not end with a newline, the first entry of
\* tail(file, n, None) is the trimmed text of the last line of the file,
\* when that line is not empty after trimming.
LastLine(c) == LineFrom(c, CHOOSE o \in LineOffsets(c) : \A q \in LineOffsets(c) : q <= o)

C7_UnterminatedLastLineFirst ==
    (TailReturned /\ keyword = None /\ TheFile # <<>> /\ TheFile[Len(TheFile)] # NL
      /\ Strip(LastLine(TheFile)) # <<>>) =>
        /\ retval # <<>>
        /\ retval[1] = Strip(LastLine(TheFile))

\* C8: a file size over MAX_FILE_SIZE makes tail and tail_stream fail with
\* ValueError; the file is never opened, no byte is read, nothing is returned
\* or yielded.
C8_OversizeRejectedUnread ==
    ((IsTail \/ IsStream) /\ file_size > MAX_FILE_SIZE) =>
        /\ outcome = "ValueError"
        /\ handle = "none"
        /\ reads = <<>>
        /\ lines = <<>> /\ retval = <<>> /\ yielded = <<>>

C8_Witness ==
    /\ endpoint = "tail_stream"
    /\ file_size > MAX_FILE_SIZE
    /\ outcome = "ValueError"
    /\ pc = "done"

\* A name that contains ".." or starts with "/".
Traversal(name) == Contains(name, <<".", ".">>) \/ (Len(name) > 0 /\ Head(name) = "/")

\* C9: for a path that does not exist or is not a regular file, tail and
\* tail_stream fail with FileNotFoundError and /logs answers 404.
C9_NotFoundForMissingOrNonFile ==
    (pc = "done" /\ ~RegularFile /\ ~Traversal(filename)) =>
        /\ endpoint \in {"tail", "tail_stream"} => outcome = "FileNotFoundError"
        /\ (endpoint = "logs" /\ ValidEntries(entries)) => status = 404

\* The part of C9 that holds: a path that does not exist.
C9_NotFoundForMissing ==
    (pc = "done" /\ PathKind(filename) = "missing" /\ ~Traversal(filename)) =>
        /\ endpoint \in {"tail", "tail_stream"} => outcome = "FileNotFoundError"
        /\ (endpoint \in {"logs", "stream"} /\ ValidEntries(entries)) => status = 404

\* The name a request carries: filename, or directory for /logs/list.
IsRequest == endpoint \in {"logs", "stream", "list"}
RequestName == IF endpoint = "list"
               THEN (IF directory = None THEN <<>> ELSE directory[1])
               ELSE filename

\* No path was built, statted, opened or read, and no reader was entered.
Untouched ==
    /\ pc \in {"request", "done"}
    /\ fs_ops = 0 /\ handle = "none" /\ reads = <<>>
    /\ outcome = "running" /\ file_size = 0

\* C10 as stated: a request whose name contains ".." or starts with "/" is
\* answered 400, before anything is touched.
C10_TraversalAlways400 ==
    (IsRequest /\ Traversal(RequestName)) =>
        /\ Untouched
        /\ pc = "done" => status = 400

\* C10 as amended: such a request touches nothing and is answered 400 when its
\* entries parameter is one the framework accepts, 422 when it is not.
C10_TraversalRejectedUntouched ==
    (IsRequest /\ Traversal(RequestName)) =>
        /\ Untouched
        /\ pc = "done" => status = (IF ValidEntries(entries) THEN 400 ELSE 422)

C10_Witness ==
    /\ endpoint = "stream" /\ filename = UpName /\ ValidEntries(entries)
    /\ pc = "done" /\ status = 400

\* C11: for an empty file tail returns the empty sequence, raises nothing and
\* opens nothing, and /logs answers with returned_lines 0 and entries [].
C11_EmptyFileEmptyResult ==
    (IsTail /\ RegularFile /\ TheFile = <<>>) =>
        /\ handle = "none" /\ reads = <<>> /\ retval = <<>>
        /\ outcome \in {"running", "returned"}
        /\ pc \in {"logs_return", "done"} /\ (endpoint = "logs" => ValidEntries(entries)) =>
              /\ outcome = "returned"
              /\ Len(retval) = 0
              /\ (pc = "done" /\ endpoint = "logs" => status = 200)

C11_Witness ==
    /\ endpoint = "logs" /\ filename = LogName /\ content = <<>>
    /\ keyword # None
    /\ pc = "done" /\ status = 200 /\ retval = <<>>


\* The chunked scans: tail above the small-file cutoff, and tail_stream.
ChunkedScan ==
    /\ (IsTail \/ IsStream) /\ RegularFile
    /\ file_size > 0 /\ ~TooLarge(file_size)
    /\ IsTail => ~IsSmallFile(file_size, CHUNK_SIZE)

Last(s) == s[Len(s)]

\* The carry buffer of a scan that has ended at position 0 with budget left
\* holds the first line of the file; what the claim requires of it.
FirstLineDrained ==
    LET first == LineFrom(TheFile, 0)
    IN  (position = 0 /\ count < entries /\ first # <<>>) =>
            /\ fragments # <<>> /\ Last(fragments) = <<0, first>>
            /\ (Strip(first) # <<>> /\ Matches(keyword, Strip(first))) =>
                   /\ Emitted # <<>> /\ Last(Emitted) = Strip(first)
                   /\ Last(offsets) = 0

\* C12: in tail's general path and in tail_stream, when the cursor has reached 0
\* with budget left and the carry buffer is not empty, the carry buffer is
\* normalized, matched and, when it passes, emitted as the last line before the
\* scan is done.
C12_CarryBufferDrained ==
    (ChunkedScan /\ outcome = "returned") => FirstLineDrained

\* The part of C12 that tail's general path keeps.
C12_TailDrainsCarryBuffer ==
    (ChunkedScan /\ IsTail /\ outcome = "returned") => FirstLineDrained

\* C13: every fragment that a chunked scan hands to the normalizer is the bytes
\* of one complete line of the file: it starts at the start of the file or just
\* after a newline and runs to the next newline or to the end of the file.
C13_FragmentsAreCompleteLines ==
    ((IsTail \/ IsStream) /\ RegularFile) =>
        \A i \in 1..Len(fragments) :
            /\ fragments[i][1] \in LineOffsets(TheFile)
            /\ fragments[i][2] = LineFrom(TheFile, fragments[i][1])

\* A line longer than the chunk size, and so read in two reads or more, has
\* been handed over by a scan that has ended.
C13_Witness ==
    /\ ChunkedScan /\ outcome = "returned"
    /\ \E i \in 1..Len(fragments) : Len(fragments[i][2]) > CHUNK_SIZE
    /\ \E i \in 1..Len(fragments) : fragments[i][2] # TheFile

\* C14: every line emitted by tail and by tail_stream is non-empty and has no
\* leading or trailing whitespace.
C14_EmittedLinesTrimmedNonEmpty ==
    ((IsTail \/ IsStream) /\ RegularFile) =>
        \A i \in 1..Len(Emitted) : Emitted[i] # <<>> /\ Strip(Emitted[i]) = Emitted[i]

\* The part of C14 that the chunked scans keep.
C14_ChunkedScanTrimmed ==
    ChunkedScan =>
        \A i \in 1..Len(Emitted) : Emitted[i] # <<>> /\ Strip(Emitted[i]) = Emitted[i]


\* The lines that have passed the filter so far.
Accepted == IF IsStream THEN yielded ELSE lines

\* What the claim requires of one step of a scan: the count of the budget is the
\* number of accepted lines wherever the scan goes on (a suspended generator
\* counts its line when it is resumed), and with n lines accepted no step
\* reads or emits.
BudgetStep ==
    /\ (IsTail /\ pc' = "tail_scan") => count' = Len(lines')
    /\ (IsStream /\ pc' = "stream_scan") => count' = Len(yielded')
    /\ (IsStream /\ pc' = "stream_yield") => count' + 1 = Len(yielded')
    /\ Len(Accepted) >= entries => (reads' = reads /\ Accepted' = Accepted)

\* C15: in the chunked scans the budget is decremented exactly once per line
\* that passes the filter, and once the n-th line has been accepted no further
\* chunk is read and no further line is emitted.
C15_BudgetStopsScan == [][ChunkedScan => BudgetStep]_vars

\* The part of C15 that holds: scans whose consumer has not closed the generator.
C15_BudgetStopsScanUnlessClosed == [][(ChunkedScan /\ ~closing') => BudgetStep]_vars

\* C16: a handle opened by tail or tail_stream is closed in every terminal
\* state of the scan: completion, early stop, an error during the scan, and
\* the consumer closing the generator at a yield.
C16_HandleClosedWhenScanOver ==
    ((IsTail \/ IsStream) /\ outcome # "running") => handle # "open"

\* The part of C16 that holds: every end but the one where close() is ignored.
C16_ClosedUnlessCloseIgnored ==
    ((IsTail \/ IsStream) /\ outcome \notin {"running", "RuntimeError"}) => handle # "open"

\* C17: in a chunked scan the cursor stays within 0..file_size, starts at
\* file_size and never increases; each read covers [position - read_size,
\* position) with read_size = min(chunk_size, position), so the ranges read are
\* contiguous and disjoint.
C17_CursorAndReadsContiguous ==
    ChunkedScan =>
        /\ 0 <= position /\ position <= file_size
        /\ position = (IF reads = <<>> THEN file_size ELSE Last(reads)[1])
        /\ \A i \in 1..Len(reads) :
              LET before == IF i = 1 THEN file_size ELSE reads[i - 1][1]
              IN  /\ reads[i][2] = before
                  /\ reads[i][1] = before - Min(CHUNK_SIZE, before)
        /\ \A i, j \in 1..Len(reads) : i < j => reads[j][2] <= reads[i][1]

\* A scan that has read the whole file, its last read shorter than a chunk.
C17_Witness ==
    /\ ChunkedScan /\ position = 0
    /\ Len(reads) >= 2
    /\ Last(reads)[2] - Last(reads)[1] < CHUNK_SIZE


\* C18: under any interleaving of register and unregister requests the registry
\* never holds two servers of the same name.
C18_RegistryNamesUnique ==
    \A i, j \in 1..Len(servers) : i # j => servers[i].name # servers[j].name

\* The part of C18 that holds: a register request that finds its name in the
\* registry at its duplicate check is answered 400 and changes nothing.
C18_PresentAtCheckRejected ==
    [][\A c \in Calls :
          (calls[c].op = "register" /\ calls[c].pc = "start" /\ calls'[c] # calls[c]
             /\ Registered(calls[c].server.name)) =>
                (calls'[c].pc = "done" /\ calls'[c].status = 400 /\ servers' = servers)]_vars

====
